---- MODULE Spec2Model ----
(***************************************************************************)
(* Model of add-fragment.py: a one-shot script that reads renderer.ts into *)
(* a list of lines, inserts three snippets (two at fixed offsets, one at a  *)
(* content-resolved position), writes the list back and prints a message.  *)
(*                                                                         *)
(* Text is modelled as a sequence of tokens.  A token is either the line   *)
(* terminator NL or the body of one physical line; a body records which of *)
(* the three substrings tested by the script it contains (k) and an        *)
(* identity that tells otherwise equal bodies apart (n).                    *)
(***************************************************************************)
EXTENDS Integers, Sequences, FiniteSets, TLC

\* ---------------------------------------------------------------- bounds
MaxLines == 41          \* longest input document, in lines
MaxRuns == 3            \* invocations of the script on the same file
MaxPartial == 1         \* list elements that reach the disk before a write error

\* ------------------------------------------------------ program constants
ImportOffset == 8       \* lines.insert(8, ...)
GuardOffset == 38       \* lines.insert(38, fragment_guard)
ScopeDistance == 2      \* lines[i-2]
Window == 10            \* range(i, min(i+10, len(lines)))
HandlingLines == 12     \* physical lines of fragment_handling
NotFound == -1          \* a loop that ran to its end without break

\* ------------------------------------------------------------------ text
NL == [k |-> "NL", n |-> 0]
Body(kind, id) == [k |-> kind, n |-> id]

TextMarker == "if (isTextVNode(vnode))"
CdnMarker == "createDOMNode"
ElemMarker == "isElementVNode(vnode)"

\* The tested substrings a token contains.  Line 4 of fragment_handling is
\* the only inserted line that contains one of them (createDOMNode(child)).
Markers(a) ==
  CASE a.k = "text" -> {TextMarker}
    [] a.k = "cdn" -> {CdnMarker}
    [] a.k = "elem" -> {ElemMarker}
    [] a.k = "textelem" -> {TextMarker, ElemMarker}
    [] a.k = "handling" /\ a.n = 4 -> {CdnMarker}
    [] OTHER -> {}

\* Python's `marker in s` on a string s (a sequence of tokens).
Contains(s, marker) == \E p \in 1..Len(s) : marker \in Markers(s[p])

ImportLine == <<Body("import", 1), NL>>

fragment_guard ==
  <<NL, Body("guard", 1), NL, Body("guard", 2), NL, Body("guard", 3), NL>>

RECURSIVE HandlingFrom(_)
HandlingFrom(l) ==
  IF l > HandlingLines THEN <<>>
  ELSE <<Body("handling", l), NL>> \o HandlingFrom(l + 1)

fragment_handling == HandlingFrom(1)

\* ------------------------------------------------------------- file <-> list
\* f.readlines(): cut the content after every terminator; a last line without
\* terminator is kept as it is.
RECURSIVE SplitLines(_, _, _)
SplitLines(c, p, cur) ==
  IF p > Len(c) THEN (IF cur = <<>> THEN <<>> ELSE <<cur>>)
  ELSE IF c[p] = NL THEN <<Append(cur, NL)>> \o SplitLines(c, p + 1, <<>>)
  ELSE SplitLines(c, p + 1, Append(cur, c[p]))

ReadLines(c) == SplitLines(c, 1, <<>>)

\* f.writelines(lines): the elements one after the other, nothing added.
RECURSIVE Concat(_, _)
Concat(s, p) == IF p > Len(s) THEN <<>> ELSE s[p] \o Concat(s, p + 1)

WriteLines(s) == Concat(s, 1)

\* ------------------------------------------------------------- list helpers
Min(a, b) == IF a < b THEN a ELSE b

\* Mutant of Insert: the element goes after the one at the offset.
InsertAfter(s, at, x) ==
  LET p == Min(at + 1, Len(s))
  IN SubSeq(s, 1, p) \o <<x>> \o SubSeq(s, p + 1, Len(s))

\* Mutant of Insert: the element replaces the one at the offset (lines[at] = x).
InsertOverwrite(s, at, x) ==
  LET p == Min(at, Len(s))
  IN SubSeq(s, 1, p) \o <<x>> \o SubSeq(s, p + 2, Len(s))

\* list.insert(at, x) for at >= 0: an offset past the end appends.
Insert(s, at, x) ==
  LET p == Min(at, Len(s))
  IN SubSeq(s, 1, p) \o <<x>> \o SubSeq(s, p + 1, Len(s))

\* lines[idx] with Python's 0-based indexing; a negative idx counts from the end.
\* (Every list indexed this way holds the two elements patches A and B added,
\* so idx = -1 and idx = -2 are in range.)
PyIndex(s, idx) == IF idx < 0 THEN s[Len(s) + idx + 1] ELSE s[idx + 1]

\* ------------------------------------------------------------------ patches
\* Mutant of PatchA: the import is added only when the list does not hold it.
PatchAOnce(s) ==
  IF \E p \in 1..Len(s) : s[p] = ImportLine THEN s
  ELSE Insert(s, ImportOffset, ImportLine)

\* Patch A: lines.insert(8, 'import { Fragment } ...\n')
PatchA(s) == Insert(s, ImportOffset, ImportLine)

\* Mutant of PatchB: the offset counts the lines of the document as read,
\* before the import shifted them.
PatchBUnshifted(s) == Insert(s, GuardOffset + 1, fragment_guard)

\* Patch B: lines.insert(38, fragment_guard)
PatchB(s) == Insert(s, GuardOffset, fragment_guard)

\* The test of the outer loop at index idx; `and` evaluates lines[i-2] only
\* when the first operand is true.
Candidate(s, idx) ==
  /\ Contains(s[idx + 1], TextMarker)
  /\ Contains(PyIndex(s, idx - ScopeDistance), CdnMarker)

\* for j in range(i, min(i+10, len(lines))): the index at which it breaks.
RECURSIVE InnerLoop(_, _, _)
InnerLoop(s, idx, stop) ==
  IF idx >= stop THEN NotFound
  ELSE IF Contains(s[idx + 1], ElemMarker) THEN idx
  ELSE InnerLoop(s, idx + 1, stop)

\* Mutant of WindowEnd: the window is one line shorter.
WindowEndShort(s, idx) == Min(idx + Window - 1, Len(s))

\* Mutant of WindowEnd: the window is one line longer.
WindowEndWide(s, idx) == Min(idx + Window + 1, Len(s))

\* min(i+10, len(lines)), the end of the inner range.
WindowEnd(s, idx) == Min(idx + Window, Len(s))

\* Mutant of OuterLoop: the break sits inside the inner match, so a line whose
\* window has no sibling is passed over and the scan goes on.
RECURSIVE OuterLoopRetry(_, _)
OuterLoopRetry(s, idx) ==
  IF idx >= Len(s) THEN NotFound
  ELSE IF Candidate(s, idx) /\ InnerLoop(s, idx, WindowEnd(s, idx)) # NotFound THEN idx
  ELSE OuterLoopRetry(s, idx + 1)

\* for i, line in enumerate(lines): the index at which the loop breaks, which
\* is the first index that passes the test (the break is unconditional).
RECURSIVE OuterLoop(_, _)
OuterLoop(s, idx) ==
  IF idx >= Len(s) THEN NotFound
  ELSE IF Candidate(s, idx) THEN idx
  ELSE OuterLoop(s, idx + 1)

\* ------------------------------------------------------------------- state
VARIABLES
  file,        \* content of renderer.ts on disk
  pc,          \* position of the running script
  lines,       \* the list `lines`
  iFound,      \* i at the break of the outer loop, NotFound if it never broke
  jFound,      \* j at the break of the inner loop, NotFound if it never broke
  printed,     \* the success message is on stdout
  writes,      \* times this run opened the file for writing
  runs,        \* invocations started so far
  input,       \* history: content of the file when this run started
  read,        \* history: the list as readlines() returned it
  beforeC      \* history: the list after patches A and B

vars == <<file, pc, lines, iFound, jFound, printed, writes, runs, input, read, beforeC>>

\* ------------------------------------------------------------ input documents
\* A document of n lines: line t contains the text marker, line c the
\* createDOMNode marker, line e the element marker (e = t: the same line holds
\* both), and t2 starts a second group (marker two above, sibling one below).
LineKind(t, c, e, t2, p) ==
  IF p = t THEN (IF e = t THEN "textelem" ELSE "text")
  ELSE IF p = c THEN "cdn"
  ELSE IF p = e THEN "elem"
  ELSE IF t2 # NotFound /\ p = t2 THEN "text"
  ELSE IF t2 # NotFound /\ p = t2 - ScopeDistance THEN "cdn"
  ELSE IF t2 # NotFound /\ p = t2 + 1 THEN "elem"
  ELSE "plain"

\* terminated = FALSE leaves the last line without its terminator.
Document(n, t, c, e, t2, terminated) ==
  [q \in 1..(2 * n - (IF terminated \/ n = 0 THEN 0 ELSE 1)) |->
     IF q % 2 = 1 THEN Body(LineKind(t, c, e, t2, (q - 1) \div 2), (q + 1) \div 2)
     ELSE NL]

TextChoices(n) == {NotFound} \cup 0..(n - 1)

CdnChoices(n, t) ==
  IF t = NotFound THEN {NotFound}
  ELSE {NotFound} \cup
       (({t - ScopeDistance, t - 1, n - ScopeDistance, n - 1} \cap 0..(n - 1)) \ {t})

ElemChoices(n, t, c) ==
  IF t = NotFound THEN {NotFound}
  ELSE {NotFound} \cup
       (({t, t + 1, t + Window - 1, t + Window} \cap 0..(n - 1)) \ {c})

SecondChoices(n, t, c, e) ==
  IF t # NotFound /\ e = NotFound /\ t + Window + 2 <= n - 1
     /\ c \notin {t + Window - 1, t + Window + 1, t + Window + 2}
  THEN {NotFound, t + Window + 1}
  ELSE {NotFound}

\* Documents whose last line lacks its terminator are enumerated without markers.
TerminatorChoices(t) == IF t = NotFound THEN BOOLEAN ELSE {TRUE}

\* The state in which the script is started on a file that holds doc.
Start(doc) ==
  /\ file = doc
  /\ pc = "start"
  /\ lines = <<>>
  /\ iFound = NotFound
  /\ jFound = NotFound
  /\ printed = FALSE
  /\ writes = 0
  /\ runs = 1
  /\ input = doc
  /\ read = <<>>
  /\ beforeC = <<>>

Init ==
  \E n \in 0..MaxLines : \E t \in TextChoices(n) : \E c \in CdnChoices(n, t) :
    \E e \in ElemChoices(n, t, c) : \E t2 \in SecondChoices(n, t, c, e) :
      \E terminated \in TerminatorChoices(t) :
        Start(Document(n, t, c, e, t2, terminated))

\* The documents on which the script is run repeatedly: without markers, or
\* with createDOMNode two lines above the text marker and the sibling (when it
\* fits) on the line after it.
InitRerun ==
  \E n \in 0..MaxLines : \E t \in TextChoices(n) :
    \E terminated \in TerminatorChoices(t) :
      Start(Document(n, t,
                     IF t >= ScopeDistance THEN t - ScopeDistance ELSE NotFound,
                     IF t # NotFound /\ t + 1 < n THEN t + 1 ELSE NotFound,
                     NotFound, terminated))

\* ----------------------------------------------------------------- actions
\* with open(..., 'r') as f: lines = f.readlines()
Read ==
  /\ pc = "start"
  /\ lines' = ReadLines(file)
  /\ read' = lines'
  /\ pc' = "loaded"
  /\ UNCHANGED <<file, iFound, jFound, printed, writes, runs, input, beforeC>>

\* open(..., 'r') raises: the exception is not caught and the script ends.
ReadFail ==
  /\ pc = "start"
  /\ pc' = "readError"
  /\ UNCHANGED <<file, lines, iFound, jFound, printed, writes, runs, input, read, beforeC>>

StepA ==
  /\ pc = "loaded"
  /\ lines' = PatchA(lines)
  /\ pc' = "patchedA"
  /\ UNCHANGED <<file, iFound, jFound, printed, writes, runs, input, read, beforeC>>

StepB ==
  /\ pc = "patchedA"
  /\ lines' = PatchB(lines)
  /\ beforeC' = lines'
  /\ pc' = "patchedB"
  /\ UNCHANGED <<file, iFound, jFound, printed, writes, runs, input, read>>

\* Patch C: both loops and the insert.
StepC ==
  /\ pc = "patchedB"
  /\ iFound' = OuterLoop(lines, 0)
  /\ jFound' = IF iFound' = NotFound THEN NotFound
               ELSE InnerLoop(lines, iFound', WindowEnd(lines, iFound'))
  /\ lines' = IF jFound' = NotFound THEN lines
              ELSE Insert(lines, jFound', fragment_handling)
  /\ pc' = "patchedC"
  /\ UNCHANGED <<file, printed, writes, runs, input, read, beforeC>>

\* with open(..., 'w') as f: f.writelines(lines)
Write ==
  /\ pc = "patchedC"
  /\ file' = WriteLines(lines)
  /\ writes' = writes + 1
  /\ pc' = "written"
  /\ UNCHANGED <<lines, iFound, jFound, printed, runs, input, read, beforeC>>

\* open(..., 'w') raises: the file is not opened and keeps its content.
OpenFail ==
  /\ pc = "patchedC"
  /\ pc' = "writeError"
  /\ UNCHANGED <<file, lines, iFound, jFound, printed, writes, runs, input, read, beforeC>>

\* The file was opened (and so truncated) and the write raises: a prefix of
\* the list is on disk.
WriteFail ==
  /\ pc = "patchedC"
  /\ \E k \in 0..Min(MaxPartial, Len(lines) - 1) :
       file' = WriteLines(SubSeq(lines, 1, k))
  /\ writes' = writes + 1
  /\ pc' = "writeError"
  /\ UNCHANGED <<lines, iFound, jFound, printed, runs, input, read, beforeC>>

\* Mutant of PrintSuccess: the message is printed however the write ended.
PrintRegardless ==
  /\ pc \in {"written", "writeError"}
  /\ printed' = TRUE
  /\ pc' = "success"
  /\ UNCHANGED <<file, lines, iFound, jFound, writes, runs, input, read, beforeC>>

\* print("Fragment support added successfully!")
PrintSuccess ==
  /\ pc = "written"
  /\ printed' = TRUE
  /\ pc' = "success"
  /\ UNCHANGED <<file, lines, iFound, jFound, writes, runs, input, read, beforeC>>

\* The script is invoked again on the file the previous run left.
Rerun ==
  /\ pc = "success"
  /\ runs < MaxRuns
  /\ runs' = runs + 1
  /\ input' = file
  /\ pc' = "start"
  /\ lines' = <<>>
  /\ read' = <<>>
  /\ beforeC' = <<>>
  /\ iFound' = NotFound
  /\ jFound' = NotFound
  /\ printed' = FALSE
  /\ writes' = 0
  /\ UNCHANGED file

Next ==
  \/ Read
  \/ ReadFail
  \/ StepA
  \/ StepB
  \/ StepC
  \/ Write
  \/ OpenFail
  \/ WriteFail
  \/ PrintSuccess

\* One invocation of the script on every input document.
Spec == Init /\ [][Next]_vars

NextRerun ==
  \/ Next
  \/ Rerun

\* Up to MaxRuns invocations in a row on the same file.
SpecRerun == InitRerun /\ [][NextRerun]_vars

\* ------------------------------------------------------- notions of the claims
\* Number of places at which the token sequence w occurs in the content c.
Occurrences(c, w) ==
  Cardinality({p \in 0..(Len(c) - Len(w)) : SubSeq(c, p + 1, p + Len(w)) = w})

CountElem(s, x) == Cardinality({p \in 1..Len(s) : s[p] = x})

InsertedKinds == {"import", "guard", "handling"}

NoInsertedText(c) == \A p \in 1..Len(c) : c[p].k \notin InsertedKinds

GuardLine(l) == <<Body("guard", l), NL>>

\* The list without its element at 0-based index at.
RemoveAt(s, at) == SubSeq(s, 1, at) \o SubSeq(s, at + 2, Len(s))

\* The patches have run (the run may have ended since).
AfterB == pc \in {"patchedB", "patchedC", "written", "success", "writeError"}
AfterC == pc \in {"patchedC", "written", "success", "writeError"}

\* In the list s, idx is the first index that holds the text marker with the
\* createDOMNode marker at Python index idx - 2.
IsFirstCandidate(s, idx) ==
  /\ idx \in 0..(Len(s) - 1)
  /\ Candidate(s, idx)
  /\ \A q \in 0..(idx - 1) : ~Candidate(s, q)

\* at is the first index among idx .. idx+9 that holds the element marker.
IsSibling(s, idx, at) ==
  /\ at \in idx..(idx + Window - 1)
  /\ at < Len(s)
  /\ Contains(s[at + 1], ElemMarker)
  /\ \A q \in idx..(at - 1) : ~Contains(s[q + 1], ElemMarker)

Resolves(s) ==
  \E idx \in 0..(Len(s) - 1) :
    /\ IsFirstCandidate(s, idx)
    /\ \E at \in idx..(idx + Window - 1) : IsSibling(s, idx, at)

\* In the document s as read, p is a line L of claim C1: it holds the text
\* marker and the line two positions above it holds the createDOMNode marker.
IsL(s, p) ==
  /\ p \in ScopeDistance..(Len(s) - 1)
  /\ Contains(s[p + 1], TextMarker)
  /\ Contains(s[p - ScopeDistance + 1], CdnMarker)

\* Exactly one L, with a sibling among the 9 lines that follow it.
WellFormed(s) ==
  \E p \in 0..(Len(s) - 1) :
    /\ IsL(s, p)
    /\ \A q \in 0..(Len(s) - 1) : IsL(s, q) => q = p
    /\ \E r \in (p + 1)..(p + Window - 1) : r < Len(s) /\ Contains(s[r + 1], ElemMarker)

OneOfEach(c) ==
  /\ Occurrences(c, ImportLine) = 1
  /\ Occurrences(c, fragment_guard) = 1
  /\ Occurrences(c, fragment_handling) = 1

\* ------------------------------------------------------------------ claim C1
\* C1 as stated: a successful run on a document without inserted text that has
\* exactly one line L (text marker, createDOMNode two above) with a sibling line
\* among the 9 lines after L leaves exactly one import line, one type-guard
\* block and one behaviour-branch block in the file, wherever L lies.
C1_InsertionCountAnywhere ==
  (pc = "success" /\ NoInsertedText(input) /\ WellFormed(read)) => OneOfEach(file)

\* C1 amended: the same, provided the anchor still resolves in the list as
\* patches A and B left it (the first line there that holds the text marker
\* with createDOMNode at index i-2 has a sibling among indices i..i+9).
C1_InsertionCount ==
  (pc = "success" /\ NoInsertedText(input) /\ WellFormed(read) /\ Resolves(beforeC))
    => OneOfEach(file)

\* A successful run on a well-formed document whose L lies between the two
\* fixed offsets.
C1_Witness ==
  /\ pc = "success"
  /\ NoInsertedText(input)
  /\ WellFormed(read)
  /\ Resolves(beforeC)
  /\ \E p \in (ImportOffset + ScopeDistance)..(GuardOffset - Window - 2) : IsL(read, p)

\* ------------------------------------------------------------------ claim C2
\* C2: whenever the behaviour-branch block is inserted, it lies strictly before
\* the sibling line used as its anchor and strictly after the line matched as
\* the opening branch.
C2_Ordering ==
  (AfterC /\ jFound # NotFound) =>
    /\ lines[jFound + 1] = fragment_handling
    /\ lines[jFound + 2] = beforeC[jFound + 1]
    /\ Contains(lines[jFound + 2], ElemMarker)
    /\ iFound < jFound
    /\ lines[iFound + 1] = beforeC[iFound + 1]
    /\ Contains(lines[iFound + 1], TextMarker)

\* ------------------------------------------------------------------ claim C3
\* The content c is the content d with the import line and the type-guard
\* block added, and nothing else changed.
TwoAdditions(c, d) ==
  \E a \in {x \in 1..Len(c) : c[x] = Body("import", 1)} :
    \E g \in {x \in 2..Len(c) : c[x] = Body("guard", 1)} :
      /\ a + 2 <= g - 1
      /\ SubSeq(c, a, a + 1) = ImportLine
      /\ SubSeq(c, g - 1, g + 5) = fragment_guard
      /\ d = SubSeq(c, 1, a - 1) \o SubSeq(c, a + 2, g - 2) \o SubSeq(c, g + 6, Len(c))

C4_NonIdempotentAtFixedIndices ==
  /\ AfterB =>
       /\ Len(beforeC) > GuardOffset
       /\ beforeC[ImportOffset + 1] = ImportLine
       /\ beforeC[GuardOffset + 1] = fragment_guard
  /\ pc = "success" =>
       /\ file # input
       /\ Occurrences(file, ImportLine) = runs
       /\ Occurrences(file, fragment_guard) = runs

\* C4 amended: every run inserts the import text at index min(8, length) and
\* the type-guard text at index min(38, length) of the list at that moment, a
\* successful run changes the file, and after n successful runs the file holds
\* n copies of the import text and n copies of each line of the type-guard
\* text (not necessarily as n whole blocks).
C4_NonIdempotent ==
  /\ AfterB =>
       /\ beforeC[Min(ImportOffset, Len(read)) + 1] = ImportLine
       /\ beforeC[Min(GuardOffset, Len(read) + 1) + 1] = fragment_guard
  /\ pc = "success" =>
       /\ file # input
       /\ Occurrences(file, ImportLine) = runs
       /\ \A l \in 1..3 : Occurrences(file, GuardLine(l)) = runs

\* A second successful run whose insertion tore the first run's type-guard
\* block apart.
C4_Witness ==
  /\ pc = "success"
  /\ runs = 2
  /\ Occurrences(file, fragment_guard) < runs

\* ------------------------------------------------------------------ claim C5
\* The final list and, once written, the file hold lines 1-8 in place, the
\* import line as line 9, original line 9 as line 10, and the type-guard block
\* directly after original line 37 and directly before original line 38.
FixedOffsetLayout ==
  /\ \A p \in 1..ImportOffset : lines[p] = read[p]
  /\ lines[ImportOffset + 1] = ImportLine
  /\ lines[ImportOffset + 2] = read[ImportOffset + 1]
  /\ lines[GuardOffset] = read[GuardOffset - 1]
  /\ lines[GuardOffset + 1] = fragment_guard
  /\ lines[GuardOffset + 2] = read[GuardOffset]
  /\ pc \in {"written", "success"} =>
       LET onDisk == ReadLines(file)
       IN /\ \A p \in 1..ImportOffset : onDisk[p] = read[p]
          /\ onDisk[ImportOffset + 1] = ImportLine
          /\ onDisk[ImportOffset + 2] = read[ImportOffset + 1]
          /\ onDisk[GuardOffset] = read[GuardOffset - 1]
          /\ onDisk[GuardOffset + 1] = <<NL>>
          /\ \A l \in 1..3 : onDisk[GuardOffset + 1 + l] = GuardLine(l)
          /\ onDisk[GuardOffset + 5] = read[GuardOffset]

\* C5 as stated: on a document of at least 38 lines, when the behaviour-branch
\* block is not inserted at or before the type-guard position, the layout holds.
C5_FixedOffsetPlacementNotBefore ==
  (/\ AfterC
   /\ Len(read) >= GuardOffset
   /\ \A p \in 1..(GuardOffset + 1) : lines[p] # fragment_handling)
  => FixedOffsetLayout

\* C5 amended: the layout holds when the behaviour-branch block is inserted
\* neither at or before the type-guard position nor directly after the
\* type-guard block (its anchor is not original line 38).
C5_FixedOffsetPlacement ==
  (/\ AfterC
   /\ Len(read) >= GuardOffset
   /\ \A p \in 1..(GuardOffset + 2) : lines[p] # fragment_handling)
  => FixedOffsetLayout

\* A written document of at least 38 lines with the behaviour-branch block
\* inserted further down than the line after the type-guard block.
C5_Witness ==
  /\ pc = "written"
  /\ Len(read) >= GuardOffset
  /\ \E p \in (GuardOffset + 3)..Len(lines) : lines[p] = fragment_handling

\* ------------------------------------------------------------------ claim C6
\* C6 as stated: for a line L after the region of the fixed-offset insertions
\* that holds the text marker, has createDOMNode within the 2 lines above it
\* and a sibling line within the 10 lines after it, the block is inserted
\* immediately before the first sibling line after L.
C6_PlacementWithin ==
  AfterC =>
    \A p \in (GuardOffset + 1)..(Len(read) - 1) :
      (/\ Contains(read[p + 1], TextMarker)
       /\ Contains(read[p], CdnMarker) \/ Contains(read[p - 1], CdnMarker))
      => \A r \in (p + 1)..(p + Window) :
           (/\ r < Len(read)
            /\ Contains(read[r + 1], ElemMarker)
            /\ \A q \in (p + 1)..(r - 1) : ~Contains(read[q + 1], ElemMarker))
           => /\ Len(lines) >= r + 4
              /\ lines[r + 3] = fragment_handling
              /\ lines[r + 4] = read[r + 1]

\* C6 amended: when L is the first line of the list left by patches A and B
\* that holds the text marker with createDOMNode exactly two positions above
\* (index i-2), and a sibling line lies at L or within the 9 lines after it,
\* the block is inserted immediately before the first such line.
C6_Placement ==
  AfterC =>
    \A idx \in 0..(Len(beforeC) - 1) :
      IsFirstCandidate(beforeC, idx) =>
        \A at \in idx..(idx + Window - 1) :
          IsSibling(beforeC, idx, at) =>
            lines = SubSeq(beforeC, 1, at) \o <<fragment_handling>>
                      \o SubSeq(beforeC, at + 1, Len(beforeC))

\* Patch C resolved a line L that lies after the type-guard block, with its
\* sibling on the last line of the window.
C6_Witness ==
  /\ pc = "patchedC"
  /\ \E idx \in (GuardOffset + 1)..(Len(beforeC) - 1) :
       /\ IsFirstCandidate(beforeC, idx)
       /\ \E at \in (idx + 1)..(idx + Window - 1) : IsSibling(beforeC, idx, at)

\* ------------------------------------------------------------------ claim C7
\* C7: the file is opened for writing at most once per run, only after the
\* read succeeded and the three patches ran; the message is printed only after
\* the write completed; a failed read ends the run with the file never opened
\* for writing, its content unchanged, no patch applied and nothing printed.
C7_RunStateMachine ==
  /\ writes <= 1
  /\ writes = 1 =>
       /\ pc \in {"written", "success", "writeError"}
       /\ read = ReadLines(input)
       /\ Len(lines) >= Len(read) + 2
       /\ CountElem(lines, fragment_guard) = 1
  /\ file # input => writes = 1
  /\ printed =>
       /\ pc = "success"
       /\ writes = 1
       /\ file = WriteLines(lines)
  /\ pc = "readError" =>
       /\ writes = 0
       /\ file = input
       /\ lines = <<>>
       /\ ~printed

\* A second invocation whose read fails on the file the first one patched.
C7_Witness ==
  /\ pc = "readError"
  /\ runs = 2
  /\ Occurrences(file, ImportLine) = 1

\* ------------------------------------------------------------------ claim C8
\* C8: a line is accepted as the opening branch only if a line above it, two
\* positions up, holds createDOMNode; a line at index 0 or 1 is never accepted.
C8_ScopedAbove ==
  (AfterC /\ iFound # NotFound) =>
    /\ iFound >= ScopeDistance
    /\ Contains(beforeC[iFound - ScopeDistance + 1], CdnMarker)

\* ------------------------------------------------------------------ claim C9
\* C9: at most one behaviour-branch block is inserted per run; only the first
\* line that passes both tests is used: the block goes before the first
\* sibling line of its window, and when its window has none nothing is
\* inserted, whatever later lines would offer.
C9_SingleResolution ==
  AfterC =>
    /\ CountElem(lines, fragment_handling) <= 1
    /\ Len(lines) <= Len(beforeC) + 1
    /\ \A idx \in 0..(Len(beforeC) - 1) :
         IsFirstCandidate(beforeC, idx) =>
           /\ (\A at \in idx..(idx + Window - 1) : ~IsSibling(beforeC, idx, at))
                => lines = beforeC
           /\ \A p \in 1..Len(lines) :
                lines[p] = fragment_handling => IsSibling(beforeC, idx, p - 1)
    /\ (\A idx \in 0..(Len(beforeC) - 1) : ~Candidate(beforeC, idx)) => lines = beforeC

\* The first line that passes both tests has no sibling in its window while a
\* later line passes both tests and has one.
C9_Witness ==
  /\ pc = "patchedC"
  /\ \E idx \in 0..(Len(beforeC) - 1) :
       /\ IsFirstCandidate(beforeC, idx)
       /\ \A at \in idx..(idx + Window - 1) : ~IsSibling(beforeC, idx, at)
       /\ \E later \in (idx + 1)..(Len(beforeC) - 1) :
            /\ Candidate(beforeC, later)
            /\ \E at \in later..(later + Window - 1) : IsSibling(beforeC, later, at)

\* ----------------------------------------------------------------- claim C10
\* The list s without its type-guard and behaviour-branch elements.
WithoutBlocks(s) ==
  SelectSeq(s, LAMBDA x : x \notin {fragment_guard, fragment_handling})

BodiesOf(c) == SelectSeq(c, LAMBDA a : a.k \notin (InsertedKinds \cup {"NL"}))

\* C10: the patches only insert.  Taking the inserted elements out of the final
\* list gives the list that was read, in order; the written file is the
\* concatenation of the final list and holds the input's lines unchanged and
\* in order.
C10_Frame ==
  /\ AfterC =>
       /\ CountElem(lines, fragment_guard) = 1
       /\ CountElem(lines, fragment_handling) <= 1
       /\ Len(lines) = Len(read) + 2 + CountElem(lines, fragment_handling)
       /\ LET kept == WithoutBlocks(lines)
          IN \E a \in {p \in 0..(Len(kept) - 1) : kept[p + 1] = ImportLine} :
               RemoveAt(kept, a) = read
  /\ pc \in {"written", "success"} =>
       /\ file = WriteLines(lines)
       /\ Len(file) = Len(input) + Len(ImportLine) + Len(fragment_guard)
                        + CountElem(lines, fragment_handling) * Len(fragment_handling)
       /\ runs = 1 => BodiesOf(file) = BodiesOf(input)

\* A written file into which all three snippets were inserted.
C10_Witness ==
  /\ pc = "written"
  /\ CountElem(lines, fragment_handling) = 1
  /\ Len(read) > GuardOffset

====
